---- MODULE Spec2Model ----
(***************************************************************************)
(* OpenTelemetry instrumentation of the Anthropic client                   *)
(* (opentelemetry/instrumentation/anthropic/__init__.py).                  *)
(*                                                                         *)
(* The model follows one caller thread: the instrumentor patches and       *)
(* unpatches the two client methods, and every call of a patched method    *)
(* runs the wrapper _wrap around the original callable.  Python values are *)
(* tagged records, a dict or an object's __dict__ is a function from keys  *)
(* to values, and a Python exception is the field "raised" of the record   *)
(* an operator returns together with what it had written before raising.  *)
(***************************************************************************)
EXTENDS Integers, Sequences, FiniteSets, TLC

(***************************************************************************)
(* Python values                                                           *)
(***************************************************************************)
None == [t |-> "none"]

Str(s) == [t |-> "str", s |-> s]

Num(n) == [t |-> "int", n |-> n]

Bool(b) == [t |-> "bool", b |-> b]

List(items) == [t |-> "list", items |-> items]

\* a dict: d.get(k) reads it
Dict(fields) == [t |-> "dict", fields |-> fields]

\* an object that is no dict: its __dict__ is read instead
Obj(fields) == [t |-> "object", fields |-> fields]

\* the dict with no key (the empty function)
NoFields == [k \in {} |-> None]

\* Python truth value of v, as "if v:" and "v or w" take it
Truthy(v) ==
    CASE v.t = "none" -> FALSE
      [] v.t = "str" -> v.s # ""
      [] v.t = "int" -> v.n # 0
      [] v.t = "bool" -> v.b
      [] v.t = "list" -> v.items # << >>
      [] v.t = "dict" -> DOMAIN v.fields # {}
      [] OTHER -> TRUE

\* d.get(k) on the key-to-value function of a dict
Get(fields, k) == IF k \in DOMAIN fields THEN fields[k] ELSE None

\* str(v)
StrOf(v) ==
    CASE v.t = "str" -> v.s
      [] v.t = "int" -> ToString(v.n)
      [] v.t = "bool" -> IF v.b THEN "True" ELSE "False"
      [] OTHER -> "None"

\* json.dumps of a string or of None
JsonScalar(v) == IF v.t = "str" THEN "\"" \o v.s \o "\"" ELSE "null"

(***************************************************************************)
(* Target registry                                                         *)
(***************************************************************************)
WRAPPED_METHODS ==
    << [package |-> "anthropic.resources.completions", object |-> "Completions",
        method |-> "create", span_name |-> "anthropic.completion"],
       [package |-> "anthropic.resources.messages", object |-> "Messages",
        method |-> "create", span_name |-> "anthropic.completion"] >>

\* the classes each module of the client library defines
ModuleClasses ==
    [m \in {"anthropic.resources.completions", "anthropic.resources.messages"} |->
        IF m = "anthropic.resources.completions"
        THEN {"Completions", "AsyncCompletions"}
        ELSE {"Messages", "AsyncMessages"}]

\* the class attributes a dotted path can name: <<module, class>>
PatchPoints == UNION {{<<m, c>> : c \in ModuleClasses[m]} : m \in DOMAIN ModuleClasses}

\* the attribute a registry entry names
TargetOf(w) == <<w.package, w.object>>

Targets == {TargetOf(WRAPPED_METHODS[i]) : i \in DOMAIN WRAPPED_METHODS}

(***************************************************************************)
(* Content-tracing gate                                                    *)
(***************************************************************************)
\* str.lower() of one character
LowerChar(c) ==
    CASE c = "T" -> "t" [] c = "R" -> "r" [] c = "U" -> "u" [] c = "E" -> "e"
      [] c = "F" -> "f" [] c = "A" -> "a" [] c = "L" -> "l" [] c = "S" -> "s"
      [] OTHER -> c

\* str.lower() of a string held as its characters
Lower(chars) == [i \in DOMAIN chars |-> LowerChar(chars[i])]

\* an environment string: its characters
EnvStr(chars) == [t |-> "str", s |-> chars]

\* mutation of should_send_prompts: os.getenv(name, "true"), which keeps an
\* empty value
should_send_prompts_getenv_default(env, override) ==
    LET value == IF env.t = "str" THEN env.s ELSE <<"t", "r", "u", "e">>
    IN  Lower(value) = <<"t", "r", "u", "e">> \/ Truthy(override)

\* os.getenv("TRACELOOP_TRACE_CONTENT") is env (None when unset) and
\* context_api.get_value("override_enable_content_tracing") is override
should_send_prompts(env, override) ==
    LET value == IF env.t = "str" /\ env.s # << >> THEN env.s ELSE <<"t", "r", "u", "e">>
    IN  Lower(value) = <<"t", "r", "u", "e">> \/ Truthy(override)

(***************************************************************************)
(* Attribute extraction                                                    *)
(***************************************************************************)
\* one block of a structured message content, as _dump_content keeps it;
\* item.get("source").get(...) raises when the image block has no source
DumpItem(item) ==
    CASE Get(item, "type") = Str("text") ->
           [raised |-> FALSE, keep |-> TRUE,
            json |-> "{\"type\": \"text\", \"text\": " \o JsonScalar(Get(item, "text")) \o "}"]
      [] Get(item, "type") = Str("image") ->
           LET source == Get(item, "source")
           IN  IF source.t # "dict"
               THEN [raised |-> TRUE, keep |-> FALSE, json |-> ""]
               ELSE [raised |-> FALSE, keep |-> TRUE,
                     json |-> "{\"type\": \"image\", \"source\": {\"type\": "
                              \o JsonScalar(Get(source.fields, "type"))
                              \o ", \"media_type\": "
                              \o JsonScalar(Get(source.fields, "media_type"))
                              \o ", \"data\": \""
                              \o StrOf(Get(source.fields, "data")) \o "\"}}"]
      [] OTHER -> [raised |-> FALSE, keep |-> FALSE, json |-> ""]

\* the loop of _dump_content over items[i..]: the kept blocks joined by ", "
RECURSIVE DumpItems(_, _, _)
DumpItems(items, i, first) ==
    IF i > Len(items) THEN [raised |-> FALSE, json |-> ""]
    ELSE LET d == DumpItem(items[i])
         IN  IF d.raised THEN [raised |-> TRUE, json |-> ""]
             ELSE LET rest == DumpItems(items, i + 1, first /\ ~d.keep)
                  IN  IF rest.raised THEN rest
                      ELSE [raised |-> FALSE,
                            json |-> IF d.keep
                                     THEN (IF first THEN "" ELSE ", ") \o d.json \o rest.json
                                     ELSE rest.json]

\* _dump_content: a string verbatim, a block list as JSON text; iterating
\* anything else raises
_dump_content(content) ==
    IF content.t = "str" THEN [raised |-> FALSE, value |-> content]
    ELSE IF content.t # "list" THEN [raised |-> TRUE, value |-> None]
    ELSE LET d == DumpItems(content.items, 1, TRUE)
         IN  IF d.raised THEN [raised |-> TRUE, value |-> None]
             ELSE [raised |-> FALSE, value |-> Str("[" \o d.json \o "]")]

\* span.set_attribute(name, value)
SetAttribute(attrs, name, value) == (name :> value) @@ attrs

\* mutation of _set_span_attribute: the test for the empty string left out
_set_span_attribute_not_none(attrs, name, value) ==
    IF value # None THEN SetAttribute(attrs, name, value) ELSE attrs

_set_span_attribute(attrs, name, value) ==
    IF value # None
    THEN IF value # Str("") THEN SetAttribute(attrs, name, value) ELSE attrs
    ELSE attrs

\* the loop of _set_input_attributes over messages[i..]
RECURSIVE InputMessages(_, _, _)
InputMessages(attrs, messages, i) ==
    IF i > Len(messages) THEN [attrs |-> attrs, raised |-> FALSE]
    ELSE LET dumped == _dump_content(Get(messages[i], "content"))
         IN  IF dumped.raised THEN [attrs |-> attrs, raised |-> TRUE]
             ELSE InputMessages(
                      _set_span_attribute(attrs, "llm.prompts." \o ToString(i - 1) \o ".user",
                                          dumped.value),
                      messages, i + 1)

\* the six request parameters, in the order the code writes them
RequestParameters ==
    << <<"llm.request.model", "model">>,
       <<"llm.request.max_tokens", "max_tokens_to_sample">>,
       <<"llm.temperature", "temperature">>,
       <<"llm.top_p", "top_p">>,
       <<"llm.frequency_penalty", "frequency_penalty">>,
       <<"llm.presence_penalty", "presence_penalty">> >>

RECURSIVE InputParameters(_, _, _)
InputParameters(attrs, kwargs, i) ==
    IF i > Len(RequestParameters) THEN attrs
    ELSE InputParameters(
             _set_span_attribute(attrs, RequestParameters[i][1],
                                 Get(kwargs, RequestParameters[i][2])),
             kwargs, i + 1)

_set_input_attributes(attrs, kwargs, env, override) ==
    LET a1 == InputParameters(attrs, kwargs, 1)
        prompt == Get(kwargs, "prompt")
        messages == Get(kwargs, "messages")
    IN  IF should_send_prompts(env, override)
        THEN IF prompt # None
             THEN [attrs |-> _set_span_attribute(a1, "llm.prompts.0.user", prompt),
                   raised |-> FALSE]
             ELSE IF messages # None
                  THEN IF messages.t = "list"
                       THEN InputMessages(a1, messages.items, 1)
                       ELSE [attrs |-> a1, raised |-> TRUE]
                  ELSE [attrs |-> a1, raised |-> FALSE]
        ELSE [attrs |-> a1, raised |-> FALSE]

\* block.text on a response content block: an attribute read, which raises
\* on a block that has no text
HasText(block) == "text" \in DOMAIN block

\* the loop of _set_span_completions over content[i..]
RECURSIVE CompletionBlocks(_, _, _)
CompletionBlocks(attrs, content, i) ==
    IF i > Len(content) THEN [attrs |-> attrs, raised |-> FALSE]
    ELSE IF ~HasText(content[i]) THEN [attrs |-> attrs, raised |-> TRUE]
    ELSE CompletionBlocks(
             _set_span_attribute(attrs, "llm.completions." \o ToString(i - 1) \o ".content",
                                 content[i].text),
             content, i + 1)

\* response is the key-to-value function of the normalised response
_set_span_completions(attrs, response) ==
    LET a1 == _set_span_attribute(attrs, "llm.completions.0.finish_reason",
                                  Get(response, "stop_reason"))
        completion == Get(response, "completion")
        content == Get(response, "content")
    IN  IF Truthy(completion)
        THEN [attrs |-> _set_span_attribute(a1, "llm.completions.0.content", completion),
              raised |-> FALSE]
        ELSE IF Truthy(content)
             THEN IF content.t = "list"
                  THEN CompletionBlocks(a1, content.items, 1)
                  ELSE [attrs |-> a1, raised |-> TRUE]
             ELSE [attrs |-> a1, raised |-> FALSE]

\* "if not isinstance(response, dict): response = response.__dict__"
Normalise(response) ==
    IF response.t \in {"dict", "object"}
    THEN [raised |-> FALSE, fields |-> response.fields]
    ELSE [raised |-> TRUE, fields |-> NoFields]

\* anthropic.count_tokens(text): the client library's tokenizer, which takes
\* a string only
count_tokens(text) ==
    IF text.t # "str" THEN [raised |-> TRUE, n |-> 0]
    ELSE [raised |-> FALSE,
          n |-> CASE text.s = "" -> 0
                  [] text.s = "hi" -> 1
                  [] text.s = "Hello" -> 2
                  [] OTHER -> 3]

\* sum([anthropic.count_tokens(m.get("content")) for m in messages[i..]])
RECURSIVE SumMessageTokens(_, _)
SumMessageTokens(messages, i) ==
    IF i > Len(messages) THEN [raised |-> FALSE, n |-> 0]
    ELSE LET c == count_tokens(Get(messages[i], "content"))
             rest == SumMessageTokens(messages, i + 1)
         IN  IF c.raised \/ rest.raised THEN [raised |-> TRUE, n |-> 0]
             ELSE [raised |-> FALSE, n |-> c.n + rest.n]

\* the prompt_tokens of _set_token_usage
PromptTokens(request) ==
    LET prompt == Get(request, "prompt")
        messages == Get(request, "messages")
    IN  IF Truthy(prompt) THEN count_tokens(prompt)
        ELSE IF Truthy(messages)
             THEN IF messages.t = "list" THEN SumMessageTokens(messages.items, 1)
                  ELSE [raised |-> TRUE, n |-> 0]
             ELSE [raised |-> FALSE, n |-> 0]

\* the completion_tokens of _set_token_usage
CompletionTokens(response) ==
    LET completion == Get(response, "completion")
        content == Get(response, "content")
    IN  IF Truthy(completion) THEN count_tokens(completion)
        ELSE IF Truthy(content)
             THEN IF content.t = "list" /\ HasText(content.items[1])
                  THEN count_tokens(content.items[1].text)
                  ELSE [raised |-> TRUE, n |-> 0]
             ELSE [raised |-> FALSE, n |-> 0]

\* mutation of WriteUsage: a zero count is skipped, as "if value:" would
WriteUsageTruthy(attrs, prompt_tokens, completion_tokens) ==
    LET a1 == IF prompt_tokens # 0
              THEN SetAttribute(attrs, "llm.usage.prompt_tokens", Num(prompt_tokens))
              ELSE attrs
        a2 == IF completion_tokens # 0
              THEN SetAttribute(a1, "llm.usage.completion_tokens", Num(completion_tokens))
              ELSE a1
    IN  IF prompt_tokens + completion_tokens # 0
        THEN SetAttribute(a2, "llm.usage.total_tokens", Num(prompt_tokens + completion_tokens))
        ELSE a2

\* the three writes that end _set_token_usage
WriteUsage(attrs, prompt_tokens, completion_tokens) ==
    LET a1 == _set_span_attribute(attrs, "llm.usage.prompt_tokens", Num(prompt_tokens))
        a2 == _set_span_attribute(a1, "llm.usage.completion_tokens", Num(completion_tokens))
    IN  _set_span_attribute(a2, "llm.usage.total_tokens",
                            Num(prompt_tokens + completion_tokens))

\* mutation of _set_token_usage: the prompt count is written as soon as it
\* is known, before the completion is counted
_set_token_usage_eager(attrs, request, response) ==
    LET norm == Normalise(response)
        p == PromptTokens(request)
        c == CompletionTokens(norm.fields)
        a1 == _set_span_attribute(attrs, "llm.usage.prompt_tokens", Num(p.n))
    IN  IF norm.raised \/ p.raised THEN [attrs |-> attrs, raised |-> TRUE]
        ELSE IF c.raised THEN [attrs |-> a1, raised |-> TRUE]
        ELSE [attrs |-> WriteUsage(attrs, p.n, c.n), raised |-> FALSE]

_set_token_usage(attrs, request, response) ==
    LET norm == Normalise(response)
        p == PromptTokens(request)
        c == CompletionTokens(norm.fields)
    IN  IF norm.raised \/ p.raised \/ c.raised
        THEN [attrs |-> attrs, raised |-> TRUE]
        ELSE [attrs |-> WriteUsage(attrs, p.n, c.n), raised |-> FALSE]

\* usage.input_tokens, usage.output_tokens: attribute reads
HasAttr(v, name) == v.t = "object" /\ name \in DOMAIN v.fields

\* the "if response.get("usage")" block of _set_response_attributes
NativeUsage(attrs, usage) ==
    IF ~HasAttr(usage, "input_tokens") \/ ~HasAttr(usage, "output_tokens")
    THEN [attrs |-> attrs, raised |-> TRUE]
    ELSE LET prompt_tokens == usage.fields.input_tokens
             completion_tokens == usage.fields.output_tokens
             a1 == _set_span_attribute(attrs, "llm.usage.prompt_tokens", prompt_tokens)
             a2 == _set_span_attribute(a1, "llm.usage.completion_tokens", completion_tokens)
         IN  IF prompt_tokens.t = "int" /\ completion_tokens.t = "int"
             THEN [attrs |-> _set_span_attribute(a2, "llm.usage.total_tokens",
                                                 Num(prompt_tokens.n + completion_tokens.n)),
                   raised |-> FALSE]
             ELSE [attrs |-> a2, raised |-> TRUE]

_set_response_attributes(attrs, response, env, override) ==
    LET norm == Normalise(response)
    IN  IF norm.raised THEN [attrs |-> attrs, raised |-> TRUE]
        ELSE LET a1 == _set_span_attribute(attrs, "llm.response.model",
                                           Get(norm.fields, "model"))
                 usage == Get(norm.fields, "usage")
                 u == IF Truthy(usage) THEN NativeUsage(a1, usage)
                      ELSE [attrs |-> a1, raised |-> FALSE]
             IN  IF u.raised THEN u
                 ELSE IF should_send_prompts(env, override)
                      THEN _set_span_completions(u.attrs, norm.fields)
                      ELSE u

(***************************************************************************)
(* The wrapper                                                             *)
(***************************************************************************)
\* tracer.start_as_current_span(name, kind=CLIENT, attributes={...}); the
\* tracer decides whether the span records
StartSpan(name, recording) ==
    [name |-> name,
     attrs |-> ("llm.vendor" :> Str("Anthropic")) @@ ("llm.request.type" :> Str("completion")),
     status |-> "UNSET",
     recording |-> recording,
     ended |-> FALSE]

\* mutation of Caught: no except clause, the exception goes on
Uncaught(r) == [attrs |-> r.attrs, escaped |-> r.raised]

\* "except Exception": an exception of the extraction is logged and goes no
\* further
Caught(r) == [attrs |-> r.attrs, escaped |-> FALSE]

\* the try block around the request extraction
RequestExtraction(attrs, kwargs, ctx) ==
    Caught(_set_input_attributes(attrs, kwargs, ctx.env, ctx.override))

\* the try block around the response extraction: an exception of either
\* call ends the block
ResponseExtraction(attrs, kwargs, response, ctx) ==
    LET r == _set_response_attributes(attrs, response, ctx.env, ctx.override)
    IN  Caught(IF r.raised THEN r ELSE _set_token_usage(r.attrs, kwargs, response))

\* mutation of WrapBefore: the suppress flag is not read
WrapBeforeUnsuppressed(to_wrap, kwargs, ctx, recording) ==
    LET span == StartSpan(to_wrap.span_name, recording)
        r == IF recording THEN RequestExtraction(span.attrs, kwargs, ctx)
             ELSE [attrs |-> span.attrs, escaped |-> FALSE]
    IN  [spans |-> << [span EXCEPT !.attrs = r.attrs] >>, escaped |-> r.escaped]

\* _wrap up to the call of the original: the spans this layer has open
\* afterwards (none when instrumentation is suppressed)
WrapBefore(to_wrap, kwargs, ctx, recording) ==
    IF Truthy(ctx.suppress) THEN [spans |-> << >>, escaped |-> FALSE]
    ELSE LET span == StartSpan(to_wrap.span_name, recording)
             r == IF recording THEN RequestExtraction(span.attrs, kwargs, ctx)
                  ELSE [attrs |-> span.attrs, escaped |-> FALSE]
         IN  [spans |-> << [span EXCEPT !.attrs = r.attrs] >>, escaped |-> r.escaped]

\* mutation of WrapAfterReturn: set_status inside the try block, so that an
\* exception of the extraction skips it
WrapAfterReturnStatusInTry(span, kwargs, response, ctx) ==
    LET r == IF Truthy(response) /\ span.recording
             THEN ResponseExtraction(span.attrs, kwargs, response, ctx)
             ELSE [attrs |-> span.attrs, escaped |-> FALSE]
        raised == \/ _set_response_attributes(span.attrs, response, ctx.env, ctx.override).raised
                  \/ _set_token_usage(span.attrs, kwargs, response).raised
    IN  [span |-> [span EXCEPT !.attrs = r.attrs,
                               !.status = IF Truthy(response) /\ span.recording /\ ~raised
                                          THEN "OK" ELSE @,
                               !.ended = TRUE],
         escaped |-> r.escaped]

\* _wrap from the return of the original to the end of the with block
WrapAfterReturn(span, kwargs, response, ctx) ==
    LET r == IF Truthy(response) /\ span.recording
             THEN ResponseExtraction(span.attrs, kwargs, response, ctx)
             ELSE [attrs |-> span.attrs, escaped |-> FALSE]
    IN  [span |-> [span EXCEPT !.attrs = r.attrs,
                               !.status = IF Truthy(response) /\ span.recording /\ ~r.escaped
                                          THEN "OK" ELSE @,
                               !.ended = TRUE],
         escaped |-> r.escaped]

\* mutation of WrapAfterRaise: the span started without a with block, so
\* that an exception leaves it open
SpanLeftOpen(span) == span

\* the with block left by an exception: the span's context manager records
\* the error on a recording span and ends the span
WrapAfterRaise(span) ==
    [span EXCEPT !.status = IF span.recording THEN "ERROR" ELSE @,
                 !.ended = TRUE]

\* the value _wrap returns
WrapReturnValue(response) == response

(***************************************************************************)
(* Inputs                                                                  *)
(***************************************************************************)
MaxWrapDepth == 1

MaxMsgs == 2

MaxTok == 1

TextBlock == [type |-> Str("text"), text |-> Str("hi")]

ImageBlock ==
    [type |-> Str("image"),
     source |-> Dict([type |-> Str("base64"), media_type |-> Str("image/png"), data |-> Num(7)])]

ToolBlock == [type |-> Str("tool_result")]

ImageNoSource == [type |-> Str("image")]

\* the content of one request message
Contents ==
    {Str("hi"), Str(""), List(<<TextBlock, ImageBlock, ToolBlock>>), List(<<ImageNoSource>>)}

MessageLists ==
    UNION {[1..n -> {[role |-> Str("user"), content |-> c] : c \in Contents}] : n \in 0..MaxMsgs}

UsualParameters ==
    [model |-> Str("claude-2"), max_tokens_to_sample |-> Num(5), temperature |-> Num(0),
     top_p |-> Num(1)]

ParameterProfiles ==
    {NoFields, UsualParameters,
     [model |-> Str(""), max_tokens_to_sample |-> Num(0), temperature |-> None,
      frequency_penalty |-> Num(1), presence_penalty |-> Num(0)]}

PromptFields ==
    {NoFields, [prompt |-> Str("")], [prompt |-> Str("hi")]}
        \cup {[messages |-> List(ms)] : ms \in MessageLists}
        \cup {[prompt |-> Str("hi"), messages |-> List(<<[role |-> Str("user"), content |-> Str("hi")]>>)]}

\* the keyword arguments of a call
Requests == {p @@ f : p \in ParameterProfiles, f \in PromptFields}

BasicRequests ==
    {UsualParameters @@ f :
        f \in {NoFields, [prompt |-> Str("")], [prompt |-> Str("hi")],
               [messages |-> List(<<[role |-> Str("user"), content |-> Str("hi")]>>)],
               [messages |-> List(<<[role |-> Str("user"),
                                     content |-> List(<<TextBlock, ImageBlock, ToolBlock>>)]>>)],
               [messages |-> List(<<[role |-> Str("user"), content |-> List(<<ImageNoSource>>)]>>)]}}

\* TRACELOOP_TRACE_CONTENT: unset, or a string
EnvValues ==
    {None, EnvStr(<< >>), EnvStr(<<"T", "r", "u", "e">>), EnvStr(<<"f", "a", "l", "s", "e">>)}

\* the current context: the two keys the wrapper reads, and the variable
Contexts ==
    [env : EnvValues, override : {None, Bool(TRUE), Bool(FALSE)}, suppress : {None, Bool(TRUE)}]

BasicContexts ==
    {c \in Contexts : /\ c.env \in {None, EnvStr(<<"f", "a", "l", "s", "e">>)}
                      /\ c.override \in {None, Bool(TRUE)}}

ResponseBlocks ==
    {<< >>, <<[type |-> Str("text"), text |-> Str("Hello")]>>,
     <<[type |-> Str("text"), text |-> Str("")]>>,
     <<[type |-> Str("text"), text |-> Str("Hello")], [type |-> Str("tool_use")]>>,
     <<[type |-> Str("tool_use")], [type |-> Str("text"), text |-> Str("Hello")]>>}

CompletionFields ==
    {NoFields, [completion |-> Str("")], [completion |-> Str("Hello")],
     [completion |-> Str("Hello"), content |-> List(<<[type |-> Str("text"), text |-> Str("hi")]>>)]}
        \cup {[content |-> List(b)] : b \in ResponseBlocks}

TokenCounts == {Num(n) : n \in 0..MaxTok}

UsageFields ==
    {NoFields}
        \cup {[usage |-> Obj([input_tokens |-> i, output_tokens |-> o])] :
                  i \in TokenCounts, o \in TokenCounts}
        \cup {[usage |-> Obj([input_tokens |-> None, output_tokens |-> Num(MaxTok)])],
              [usage |-> Obj([input_tokens |-> Num(MaxTok), output_tokens |-> None])]}

ResponseProfiles ==
    {[model |-> Str("claude-2")], [model |-> Str(""), stop_reason |-> Str("end_turn")]}

\* what the original callable does: it raises, or it returns a value
Raises(exc) == [kind |-> "raise", exc |-> exc]

Returns(value) == [kind |-> "return", value |-> value]

Outcomes ==
    {Raises("APIError"), Returns(None), Returns(Dict(NoFields)), Returns(Str("raw"))}
        \cup {Returns(Obj(p @@ u @@ c)) :
                  p \in ResponseProfiles, u \in UsageFields, c \in CompletionFields}

BasicOutcomes ==
    {Raises("APIError"), Returns(None), Returns(Dict(NoFields)), Returns(Str("raw")),
     Returns(Obj([model |-> Str("claude-2"), stop_reason |-> Str("stop_sequence"),
                  completion |-> Str("Hello")])),
     Returns(Obj([model |-> Str("claude-2"), stop_reason |-> Str("end_turn"),
                  content |-> List(<<[type |-> Str("text"), text |-> Str("Hello")]>>),
                  usage |-> Obj([input_tokens |-> Num(3), output_tokens |-> Num(5)])])),
     Returns(Obj([model |-> Str("claude-2"),
                  content |-> List(<<[type |-> Str("text"), text |-> Str("Hello")],
                                     [type |-> Str("tool_use")]>>)]))}

\* the calls the model makes: one of request, context and outcome ranges
\* over all its values while the other two range over the basic ones
InScope(kwargs, ctx, outcome) ==
    \/ ctx \in BasicContexts /\ outcome \in BasicOutcomes
    \/ kwargs \in BasicRequests /\ outcome \in BasicOutcomes
    \/ kwargs \in BasicRequests /\ ctx \in BasicContexts

(***************************************************************************)
(* State                                                                   *)
(***************************************************************************)
VARIABLES
    wrapDepth,    \* PatchPoint -> how many wrappers are patched onto the method
    pc,           \* "idle", "delegating" (inside the original), "returned"
    call,         \* the call in progress: target, args, kwargs, ctx, layers
    spans,        \* the spans the call has started, outermost first
    invocations,  \* the arguments of each invocation of the original
    outcome,      \* what the original did
    observed      \* what the caller observes

vars == <<wrapDepth, pc, call, spans, invocations, outcome, observed>>

Init ==
    /\ wrapDepth = [p \in PatchPoints |-> 0]
    /\ pc = "idle"
    /\ call = None
    /\ spans = << >>
    /\ invocations = << >>
    /\ outcome = None
    /\ observed = None

(***************************************************************************)
(* Instrumentation lifecycle                                               *)
(***************************************************************************)
\* wrap_function_wrapper(package, "Object.method", wrapper)
wrap_function_wrapper(depth, point) == [depth EXCEPT ![point] = @ + 1]

\* the loop of _instrument over WRAPPED_METHODS[i..]
RECURSIVE InstrumentFrom(_, _)
InstrumentFrom(depth, i) ==
    IF i > Len(WRAPPED_METHODS) THEN depth
    ELSE InstrumentFrom(wrap_function_wrapper(depth, TargetOf(WRAPPED_METHODS[i])), i + 1)

\* unwrap(path, attr) of opentelemetry.instrumentation.utils.  A release that
\* resolves dotted paths imports the class, raising when the module has no
\* such class, and takes one wrapper off the method; an earlier release
\* looks attr up on the string itself and does nothing.
unwrap(depth, point, dotted) ==
    IF ~dotted THEN [depth |-> depth, raised |-> FALSE]
    ELSE IF point \notin PatchPoints THEN [depth |-> depth, raised |-> TRUE]
    ELSE [depth |-> [depth EXCEPT ![point] = IF @ > 0 THEN @ - 1 ELSE @], raised |-> FALSE]

\* the path _uninstrument hands to unwrap for a registry entry
UnwrapPath(w) == <<"anthropic.resources.completions", w.object>>

\* the loop of _uninstrument over WRAPPED_METHODS[i..]; an exception of
\* unwrap ends it
RECURSIVE UninstrumentFrom(_, _, _)
UninstrumentFrom(depth, i, dotted) ==
    IF i > Len(WRAPPED_METHODS) THEN depth
    ELSE LET u == unwrap(depth, UnwrapPath(WRAPPED_METHODS[i]), dotted)
         IN  IF u.raised THEN u.depth ELSE UninstrumentFrom(u.depth, i + 1, dotted)

_instrument ==
    /\ pc = "idle"
    /\ \A t \in Targets : wrapDepth[t] < MaxWrapDepth
    /\ wrapDepth' = InstrumentFrom(wrapDepth, 1)
    /\ UNCHANGED <<pc, call, spans, invocations, outcome, observed>>

_uninstrument ==
    /\ pc = "idle"
    /\ \E dotted \in BOOLEAN : wrapDepth' = UninstrumentFrom(wrapDepth, 1, dotted)
    /\ UNCHANGED <<pc, call, spans, invocations, outcome, observed>>

(***************************************************************************)
(* Calls                                                                   *)
(***************************************************************************)
\* the spans of the n wrappers a call passes on its way in: every layer runs
\* the same code on the same arguments in the same context
RECURSIVE LayersBefore(_, _, _, _, _)
LayersBefore(n, to_wrap, kwargs, ctx, recording) ==
    IF n = 0 THEN [spans |-> << >>, escaped |-> FALSE]
    ELSE LET outer == WrapBefore(to_wrap, kwargs, ctx, recording)
             inner == IF outer.escaped THEN [spans |-> << >>, escaped |-> TRUE]
                      ELSE LayersBefore(n - 1, to_wrap, kwargs, ctx, recording)
         IN  [spans |-> [i \in DOMAIN outer.spans |->
                            IF inner.escaped THEN WrapAfterRaise(outer.spans[i])
                            ELSE outer.spans[i]] \o inner.spans,
              escaped |-> inner.escaped]

\* a caller calls Completions.create or Messages.create
Call(w) ==
    /\ pc = "idle"
    /\ \E kwargs \in Requests, ctx \in Contexts, recording \in BOOLEAN :
          /\ kwargs \in BasicRequests \/ ctx \in BasicContexts
          /\ LET layers == wrapDepth[TargetOf(w)]
                 before == LayersBefore(layers, w, kwargs, ctx, recording)
             IN  /\ call' = [target |-> TargetOf(w), args |-> << >>, kwargs |-> kwargs,
                             ctx |-> ctx, layers |-> layers]
                 /\ spans' = before.spans
                 /\ pc' = IF before.escaped THEN "returned" ELSE "delegating"
                 /\ observed' = IF before.escaped THEN Raises("extraction") ELSE None
    /\ UNCHANGED <<wrapDepth, invocations, outcome>>

\* the way out through the wrappers spans[1..i], innermost first: result is
\* what the layer below handed up
RECURSIVE LayersAfter(_, _, _, _, _)
LayersAfter(open, i, kwargs, ctx, result) ==
    IF i = 0 THEN [spans |-> open, result |-> result]
    ELSE IF result.kind = "raise"
         THEN LayersAfter([open EXCEPT ![i] = WrapAfterRaise(@)], i - 1, kwargs, ctx, result)
         ELSE LET r == WrapAfterReturn(open[i], kwargs, result.value, ctx)
              IN  LayersAfter([open EXCEPT ![i] = r.span], i - 1, kwargs, ctx,
                              IF r.escaped THEN Raises("extraction")
                              ELSE Returns(WrapReturnValue(result.value)))

\* the original callable runs and the call unwinds to the caller
Return ==
    /\ pc = "delegating"
    /\ \E o \in Outcomes :
          /\ InScope(call.kwargs, call.ctx, o)
          /\ LET after == LayersAfter(spans, Len(spans), call.kwargs, call.ctx, o)
             IN  /\ invocations' = Append(invocations, [args |-> call.args, kwargs |-> call.kwargs])
                 /\ outcome' = o
                 /\ spans' = after.spans
                 /\ observed' = after.result
    /\ pc' = "returned"
    /\ UNCHANGED <<wrapDepth, call>>

\* the caller goes on
Resume ==
    /\ pc = "returned"
    /\ pc' = "idle"
    /\ call' = None
    /\ spans' = << >>
    /\ invocations' = << >>
    /\ outcome' = None
    /\ observed' = None
    /\ UNCHANGED wrapDepth

Next ==
    \/ _instrument
    \/ _uninstrument
    \/ \E i \in DOMAIN WRAPPED_METHODS : Call(WRAPPED_METHODS[i])
    \/ Return
    \/ Resume

Spec == Init /\ [][Next]_vars

(***************************************************************************)
(* Properties                                                              *)
(***************************************************************************)
\* a call is inside or has left a wrapper that did not take the suppressed
\* path
Intercepted == pc # "idle" /\ call.layers > 0

Suppressed == pc # "idle" /\ Truthy(call.ctx.suppress)

Traced == Intercepted /\ ~Suppressed

UsageKeys == {"llm.usage.prompt_tokens", "llm.usage.completion_tokens", "llm.usage.total_tokens"}

\* the keys the response, completion and usage extraction write
ResponseKeys ==
    UsageKeys \cup {"llm.response.model", "llm.completions.0.finish_reason"}
        \cup {"llm.completions." \o ToString(i) \o ".content" : i \in 0..2}

\* the attributes a fresh span of this call carries
FreshAttrs == StartSpan("anthropic.completion", TRUE).attrs

\* C1: every intercepted call invokes the original exactly once, with the
\* caller's positional and keyword arguments, and the caller observes exactly
\* what the original did (its return value or its exception), also when the
\* request or the response extraction raises; before the original has run it
\* has not been invoked and the caller has observed nothing.
C1_PassThrough ==
    Intercepted =>
        /\ pc = "delegating" => invocations = << >> /\ observed = None
        /\ pc = "returned" =>
              /\ invocations = << [args |-> call.args, kwargs |-> call.kwargs] >>
              /\ observed = outcome

\* a recording call whose request extraction and whose response extraction
\* both raised, and which returned the original's response
C1_Witness ==
    /\ Traced /\ pc = "returned"
    /\ spans[1].recording
    /\ _set_input_attributes(FreshAttrs, call.kwargs, call.ctx.env, call.ctx.override).raised
    /\ outcome = Returns(Str("raw"))
    /\ observed = outcome

\* C2: a step of _uninstrument taken when every target carries the one
\* wrapper _instrument put on it leaves every target with its original
\* method.
C2_RoundTrip ==
    [][(_uninstrument /\ \A t \in Targets : wrapDepth[t] = 1)
          => \A t \in Targets : wrapDepth'[t] = 0]_vars

\* the response of the original carries a native usage object with two counts
HasNativeUsage ==
    /\ pc = "returned" /\ outcome.kind = "return" /\ outcome.value.t = "object"
    /\ LET usage == Get(outcome.value.fields, "usage")
       IN  /\ HasAttr(usage, "input_tokens") /\ usage.fields.input_tokens.t = "int"
           /\ HasAttr(usage, "output_tokens") /\ usage.fields.output_tokens.t = "int"

NativeTriple ==
    LET usage == outcome.value.fields.usage.fields
    IN  <<usage.input_tokens, usage.output_tokens,
          Num(usage.input_tokens.n + usage.output_tokens.n)>>

UsageTriple(attrs) ==
    <<Get(attrs, "llm.usage.prompt_tokens"), Get(attrs, "llm.usage.completion_tokens"),
      Get(attrs, "llm.usage.total_tokens")>>

\* C3: when the response carries a native usage object, the closed recording
\* span's usage attributes are that object's counts and their sum.
C3_NativeUsageKept ==
    (Traced /\ HasNativeUsage) =>
        \A i \in DOMAIN spans : spans[i].recording => UsageTriple(spans[i].attrs) = NativeTriple

\* C4: a call made with the suppress flag set starts no span and hands the
\* caller what the original did.
C4_Suppressed ==
    (Intercepted /\ Suppressed) =>
        /\ spans = << >>
        /\ pc = "returned" => observed = outcome /\ Len(invocations) = 1

C4_Witness ==
    /\ Intercepted /\ Suppressed /\ pc = "returned"
    /\ outcome = Raises("APIError")
    /\ observed = outcome
    /\ call.ctx.env = None

\* C5: a traced call has its span open before the original is invoked and
\* closed when the wrapper has exited; when the original raised, the span is
\* closed, carries no response, completion or usage attribute, is not OK,
\* and the caller observes the error.
C5_SpanLifetime ==
    Traced =>
        /\ Len(spans) = call.layers
        /\ pc = "delegating" =>
              invocations = << >> /\ \A i \in DOMAIN spans : ~spans[i].ended
        /\ pc = "returned" => \A i \in DOMAIN spans : spans[i].ended
        /\ (pc = "returned" /\ outcome.kind = "raise") =>
              /\ observed = outcome
              /\ \A i \in DOMAIN spans :
                    /\ spans[i].status # "OK"
                    /\ DOMAIN spans[i].attrs \cap ResponseKeys = {}

C5_Witness ==
    /\ Traced /\ pc = "returned"
    /\ outcome.kind = "raise"
    /\ spans[1].recording /\ spans[1].ended
    /\ "llm.prompts.0.user" \in DOMAIN spans[1].attrs

\* the word "true" in any mix of cases
TrueIgnoringCase(chars) ==
    /\ Len(chars) = 4
    /\ chars[1] \in {"t", "T"} /\ chars[2] \in {"r", "R"}
    /\ chars[3] \in {"u", "U"} /\ chars[4] \in {"e", "E"}

\* the gate as claimed: any set value but "true" disables, the empty string
\* too, and an override that is set at all enables
ClaimedGate(env, override) ==
    \/ override # None
    \/ env = None
    \/ env # None /\ TrueIgnoringCase(env.s)

\* the gate as amended: an empty value counts as unset, and only a true
\* override enables
AmendedGate(env, override) ==
    \/ Truthy(override)
    \/ env = None
    \/ env # None /\ (env.s = << >> \/ TrueIgnoringCase(env.s))

\* the native usage block of the response extraction does not raise
UsageReadable(fields) ==
    LET usage == Get(fields, "usage")
    IN  \/ ~Truthy(usage)
        \/ /\ HasAttr(usage, "input_tokens") /\ usage.fields.input_tokens.t = "int"
           /\ HasAttr(usage, "output_tokens") /\ usage.fields.output_tokens.t = "int"

\* the first prompt of the request is the text "hi"
PromptIsHi(kwargs) ==
    \/ Get(kwargs, "prompt") = Str("hi")
    \/ /\ Get(kwargs, "prompt") = None
       /\ Get(kwargs, "messages") # None
       /\ Get(kwargs, "messages").items # << >>
       /\ Get(Get(kwargs, "messages").items[1], "content") = Str("hi")

\* on every recording span of a traced call, the prompt attribute of a
\* request whose prompt is "hi" and the completion attribute of a response
\* whose completion is "Hello" are written exactly when open holds
GateDecides(open) ==
    Traced =>
        \A i \in DOMAIN spans :
            spans[i].recording =>
                /\ PromptIsHi(call.kwargs) =>
                      ("llm.prompts.0.user" \in DOMAIN spans[i].attrs
                          <=> open)
                /\ ( /\ pc = "returned" /\ outcome.kind = "return"
                     /\ outcome.value.t = "object"
                     /\ Get(outcome.value.fields, "completion") = Str("Hello")
                     /\ UsageReadable(outcome.value.fields) ) =>
                      ("llm.completions.0.content" \in DOMAIN spans[i].attrs
                          <=> open)

\* C6 as claimed: content attributes are written when the variable is unset
\* and no override exists, any value of the variable other than "true" (in
\* any case; the empty string too) disables them, and an override that is
\* set forces them on; for the request and again for the response.
C6_ContentGate == GateDecides(ClaimedGate(call.ctx.env, call.ctx.override))

\* C6 as amended: the variable unset or empty, or "true" in any case,
\* enables; any other value disables; an override with a true value forces
\* them on, an override of False or None forces nothing.
C6_ContentGateAmended == GateDecides(AmendedGate(call.ctx.env, call.ctx.override))

\* the variable is the empty string, the override is False, and the prompt
\* and the completion are both on the span
C6_Witness ==
    /\ Traced /\ pc = "returned"
    /\ call.ctx.env = EnvStr(<< >>) /\ call.ctx.override = Bool(FALSE)
    /\ spans[1].recording
    /\ Get(spans[1].attrs, "llm.prompts.0.user") = Str("hi")
    /\ Get(spans[1].attrs, "llm.completions.0.content") = Str("Hello")

\* C7: no attribute of any span is null or the empty string; a request
\* parameter that is null or "" leaves no attribute, and any other value,
\* the integer 0 included, is the attribute's value.
C7_NoEmptyAttribute ==
    \A i \in DOMAIN spans :
        /\ \A k \in DOMAIN spans[i].attrs : spans[i].attrs[k] \notin {None, Str("")}
        /\ spans[i].recording =>
              \A j \in DOMAIN RequestParameters :
                  LET v == Get(call.kwargs, RequestParameters[j][2])
                  IN  IF v \in {None, Str("")}
                      THEN RequestParameters[j][1] \notin DOMAIN spans[i].attrs
                      ELSE spans[i].attrs[RequestParameters[j][1]] = v

\* an empty model name was skipped and zeros were written, from the request
\* and from the token count
C7_Witness ==
    /\ Traced /\ pc = "returned"
    /\ spans[1].recording
    /\ Get(call.kwargs, "model") = Str("")
    /\ "llm.request.model" \notin DOMAIN spans[1].attrs
    /\ Get(spans[1].attrs, "llm.presence_penalty") = Num(0)
    /\ Get(spans[1].attrs, "llm.usage.prompt_tokens") = Num(0)

\* the original returned a value to a traced call
Returned == Traced /\ pc = "returned" /\ outcome.kind = "return"

AllUsageWritten(attrs) ==
    /\ UsageKeys \subseteq DOMAIN attrs
    /\ attrs["llm.usage.total_tokens"].n =
          attrs["llm.usage.prompt_tokens"].n + attrs["llm.usage.completion_tokens"].n

\* the response is an object without a usage object, and the request has a
\* prompt or a messages field
FallbackCase ==
    /\ Returned /\ outcome.value.t = "object"
    /\ Get(outcome.value.fields, "usage") = None
    /\ {"prompt", "messages"} \cap DOMAIN call.kwargs # {}

\* writing the completion content raises: the gate is open and a content
\* block has no text
CompletionWriteFails ==
    LET completion == Get(outcome.value.fields, "completion")
        content == Get(outcome.value.fields, "content")
    IN  /\ AmendedGate(call.ctx.env, call.ctx.override)
        /\ ~Truthy(completion) /\ Truthy(content)
        /\ \E j \in DOMAIN content.items : "text" \notin DOMAIN content.items[j]

\* counting raises: a counted message content is no string, or the first
\* content block has no text
CountFails ==
    LET prompt == Get(call.kwargs, "prompt")
        messages == Get(call.kwargs, "messages")
        completion == Get(outcome.value.fields, "completion")
        content == Get(outcome.value.fields, "content")
    IN  \/ /\ ~Truthy(prompt) /\ Truthy(messages)
           /\ \E j \in DOMAIN messages.items : Get(messages.items[j], "content").t # "str"
        \/ /\ ~Truthy(completion) /\ Truthy(content)
           /\ "text" \notin DOMAIN content.items[1]

\* C9 as claimed: in the fallback case the three usage attributes are
\* written and add up, zero counts included, also when writing the
\* completion content fails.
C9_FallbackWritten ==
    FallbackCase =>
        \A i \in DOMAIN spans : spans[i].recording => AllUsageWritten(spans[i].attrs)

\* C9 as amended: in the fallback case the three usage attributes are
\* written and add up, zero counts included, when neither the writing of the
\* completion content nor the counting raises; when one of them raises, no
\* usage attribute is written.
C9_FallbackWrittenUnlessRaised ==
    FallbackCase =>
        \A i \in DOMAIN spans :
            spans[i].recording =>
                IF CompletionWriteFails \/ CountFails
                THEN DOMAIN spans[i].attrs \cap UsageKeys = {}
                ELSE AllUsageWritten(spans[i].attrs)

\* an empty prompt counted as zero tokens, and the zero written
C9_Witness ==
    /\ FallbackCase
    /\ Get(call.kwargs, "prompt") = Str("")
    /\ spans[1].recording
    /\ UsageTriple(spans[1].attrs) = <<Num(0), Num(2), Num(2)>>

\* the counts of the fallback path for this call, when the counting does not
\* raise
FallbackTriple ==
    LET p == PromptTokens(call.kwargs)
        c == CompletionTokens(Normalise(outcome.value).fields)
    IN  <<Num(p.n), Num(c.n), Num(p.n + c.n)>>

FallbackCounts ==
    /\ ~Normalise(outcome.value).raised
    /\ ~PromptTokens(call.kwargs).raised
    /\ ~CompletionTokens(Normalise(outcome.value).fields).raised

\* C10: on a closed span with a total-tokens attribute, the prompt and the
\* completion counts are there too, the total is their sum, and the three
\* come from one source: the native usage object or the fallback counts.
C10_UsageConsistent ==
    Returned =>
        \A i \in DOMAIN spans :
            "llm.usage.total_tokens" \in DOMAIN spans[i].attrs =>
                /\ AllUsageWritten(spans[i].attrs)
                /\ \/ HasNativeUsage /\ UsageTriple(spans[i].attrs) = NativeTriple
                   \/ FallbackCounts /\ UsageTriple(spans[i].attrs) = FallbackTriple

\* the native counts stayed on the span because the fallback count raised
C10_Witness ==
    /\ Returned /\ HasNativeUsage
    /\ ~FallbackCounts
    /\ spans[1].recording
    /\ UsageTriple(spans[1].attrs) = NativeTriple

====
